---- MODULE Spec2Model ----
(***************************************************************************)
(* One Piece TCG proxy printer: the card resolution pipeline               *)
(* (fetch_card_data and its source adapters), the image cache              *)
(* (download_image), the image normalizer (resize_card_image) and the      *)
(* batch loop of the two entry points (op_proxy.py main, op_proxy_gui.py   *)
(* _fetch_thread).                                                         *)
(*                                                                         *)
(* Strings are sequences of one-character strings, so that upper(),        *)
(* lower(), replace() and the regular expressions act character by         *)
(* character as they do in the source.  An optional value (Python None or  *)
(* a value) is the empty sequence or a one-element sequence.               *)
(***************************************************************************)
EXTENDS Integers, Sequences, FiniteSets, TLC

\* ------------------------------------------------------------------ bounds

\* Longest decklist the batch loop is run on.
MaxEntries == 2

\* Largest quantity of a decklist entry.
MaxQty == 2

\* The largest width and height of a source image, and the largest value of
\* --dpi, of the images the normalizer is applied to on its own.
MaxDim == 8

MaxDpi == 4

\* A value of --dpi at which the rounding of the aspect ratio to a double
\* shows: an image that already has the target size is scaled one row short.
RoundingDpi == 131

\* The longest decklist line, of the lines built from every character of the
\* line alphabet.
MaxLineLen == 4

\* The largest number of cards handed to create_pdf on its own.
MaxCards == 19

\* ---------------------------------------------------------------- strings

None == <<>>

Some(x) == <<x>>

\* The identifiers the decklists of the model are built from:
\* "OP01-001" (a structured code), and "_A_B" and "/a b" (two free-text names
\* with the same cache key "_a_b", the second starting with the path
\* separator).
CardCode == <<"O", "P", "0", "1", "-", "0", "0", "1">>

NameUnderscore == <<"_", "A", "_", "B">>

NameSlash == <<"/", "a", " ", "b">>

Identifiers == {CardCode, NameUnderscore, NameSlash}

UpperLetters == {"A", "B", "O", "P", "X"}

Digits == {"0", "1", "4"}

\* str.upper(), on the characters of the model's alphabet.
UpperChar(c) ==
    CASE c = "a" -> "A"
      [] c = "b" -> "B"
      [] c = "o" -> "O"
      [] c = "p" -> "P"
      [] c = "x" -> "X"
      [] OTHER -> c

\* str.lower(), on the characters of the model's alphabet.
LowerChar(c) ==
    CASE c = "A" -> "a"
      [] c = "B" -> "b"
      [] c = "O" -> "o"
      [] c = "P" -> "p"
      [] c = "X" -> "x"
      [] OTHER -> c

Upper(s) == [i \in DOMAIN s |-> UpperChar(s[i])]

Lower(s) == [i \in DOMAIN s |-> LowerChar(s[i])]

\* The character class [<>:"/\|?*] of sanitize_filename.
ReservedChars == {"<", ">", ":", "\"", "/", "\\", "|", "?", "*"}

\* sanitize_filename without the substitution of the reserved characters.
sanitize_filename_keeps_reserved(name) ==
    [i \in DOMAIN name |-> IF LowerChar(name[i]) = " " THEN "_" ELSE LowerChar(name[i])]

\* sanitize_filename: lower-case, spaces to underscores, reserved characters
\* to underscores.
sanitize_filename(name) ==
    [i \in DOMAIN name |->
        LET c == LowerChar(name[i])
            d == IF c = " " THEN "_" ELSE c
        IN  IF d \in ReservedChars THEN "_" ELSE d]

\* [A-Z]{2,3}\d{2}-\d{3}[A-Z]? matching the whole of u.
CardPattern(u) ==
    \E n \in {2, 3} :
        /\ Len(u) \in {n + 6, n + 7}
        /\ \A i \in 1..n : u[i] \in UpperLetters
        /\ u[n + 1] \in Digits
        /\ u[n + 2] \in Digits
        /\ u[n + 3] = "-"
        /\ \A i \in (n + 4)..(n + 6) : u[i] \in Digits
        /\ (Len(u) = n + 7 => u[n + 7] \in UpperLetters)

\* is_card_id: ^[A-Z]{2,3}\d{2}-\d{3}[A-Z]?$ matched against identifier.upper();
\* $ matches at the end of the string and before a newline that ends it.
is_card_id(identifier) ==
    LET u == Upper(identifier)
    IN  \/ CardPattern(u)
        \/ (/\ u # << >>
            /\ u[Len(u)] = "\n"
            /\ CardPattern(SubSeq(u, 1, Len(u) - 1)))

\* ---------------------------------------------------------------- parser

\* What str.strip() removes and \s matches.
Whitespace == {" ", "\t", "\n"}

RECURSIVE lstrip(_)
lstrip(s) == IF s # << >> /\ Head(s) \in Whitespace THEN lstrip(Tail(s)) ELSE s

RECURSIVE rstrip(_)
rstrip(s) ==
    IF s # << >> /\ s[Len(s)] \in Whitespace THEN rstrip(SubSeq(s, 1, Len(s) - 1)) ELSE s

strip(s) == rstrip(lstrip(s))

DigitValue(c) == IF c = "0" THEN 0 ELSE IF c = "1" THEN 1 ELSE 4

\* int() of a string of digits.
RECURSIVE int(_)
int(ds) == IF ds = << >> THEN 0 ELSE 10 * int(SubSeq(ds, 1, Len(ds) - 1)) + DigitValue(ds[Len(ds)])

\* The ways ^(\d+)x?\s{min_ws,}(.+)$ matches e under re.IGNORECASE: d digits,
\* x times the letter x, s whitespace characters, and at least one more
\* character, none of them a newline.
Matches(e, min_ws) ==
    { m \in [d : 1..Len(e), x : {0, 1}, s : min_ws..Len(e)] :
        /\ m.d + m.x + m.s < Len(e)
        /\ \A i \in 1..m.d : e[i] \in Digits
        /\ (m.x = 1 => e[m.d + 1] \in {"x", "X"})
        /\ \A i \in (m.d + m.x + 1)..(m.d + m.x + m.s) : e[i] \in Whitespace
        /\ \A i \in (m.d + m.x + m.s + 1)..Len(e) : e[i] # "\n" }

\* The order in which the backtracking matcher tries them: \d+, x? and the
\* whitespace are greedy, each giving back only after what follows failed.
TriedBefore(m, n) ==
    \/ m.d > n.d
    \/ (m.d = n.d /\ m.x > n.x)
    \/ (m.d = n.d /\ m.x = n.x /\ m.s >= n.s)

\* re.match: the first match in that order.
FirstMatch(e, min_ws) ==
    CHOOSE m \in Matches(e, min_ws) : \A n \in Matches(e, min_ws) : TriedBefore(m, n)

\* parse_card_entry of either entry point: None for (None, 0), else the
\* identifier and the quantity.  The pattern of op_proxy.py asks for \s+
\* after the quantity, the pattern of op_proxy_gui.py for \s*.
parse_card_entry(entry_point, line) ==
    LET e == strip(line)
        min_ws == IF entry_point = "cli" THEN 1 ELSE 0
    IN  IF e = << >> \/ e[1] = "#"
        THEN None
        ELSE IF Matches(e, min_ws) = {}
        THEN Some([identifier |-> e, quantity |-> 1])
        ELSE LET m == FirstMatch(e, min_ws)
             IN  Some([identifier |-> strip(SubSeq(e, m.d + m.x + m.s + 1, Len(e))),
                       quantity |-> int(SubSeq(e, 1, m.d))])

\* ------------------------------------------------------- source adapters

\* What the local image directory answers: the directory does not exist, a
\* file with an accepted suffix matches one of the patterns, or none does.
LocalAnswers == {"no_dir", "match", "no_match"}

\* What a remote site answers to one request: status 200 with a usable image
\* reference, a reply without one (another status, no matching element), or a
\* failure inside the request (connection error, timeout, parse error).
Responses == {"ok", "miss", "error"}

DirectProbes == {"search_card_limitless_cdn", "search_card_direct_cdn"}

ScrapeAdapters ==
    { "search_card_opcgdb", "search_card_limitless", "search_card_onepiecetopdecks",
      "search_card_official", "search_card_tcgplayer" }

\* Path.glob(pattern) raises NotImplementedError ("Non-relative patterns are
\* unsupported") for a pattern that starts with the path separator.
GlobRaises(pattern) == Len(pattern) > 0 /\ pattern[1] = "/"

\* find_local_image: result is the matched path (here: the identifier whose
\* file it is), raised says that an exception left the function.
find_local_image(identifier, dir_set, answer) ==
    IF ~dir_set \/ answer = "no_dir"
    THEN [raised |-> FALSE, result |-> None, request |-> "none"]
    ELSE IF GlobRaises(Upper(identifier))
    THEN [raised |-> TRUE, result |-> None, request |-> "none"]
    ELSE IF answer = "match"
    THEN [raised |-> FALSE, result |-> Some([local_path |-> identifier]), request |-> "none"]
    ELSE [raised |-> FALSE, result |-> None, request |-> "none"]

Url(site, language, identifier) == [site |-> site, lang |-> language, id |-> identifier]

\* A direct probe that does not ask is_card_id first.
DirectProbeUnguarded(adapter, identifier, language, response) ==
    IF response = "ok"
    THEN [raised |-> FALSE,
          result |-> Some([image_url |-> Url(adapter, language, Upper(identifier))]),
          request |-> "HEAD", status |-> "200"]
    ELSE [raised |-> FALSE, result |-> None, request |-> "HEAD", status |-> "not_200"]

\* search_card_limitless_cdn and search_card_direct_cdn: a HEAD request for a
\* URL built from the structured code; every exception is caught.  status is
\* "200" for a reply with status code 200, "not_200" for any other reply or
\* a failed request, "none" when no request was made.
DirectProbe(adapter, identifier, language, response) ==
    IF ~is_card_id(identifier)
    THEN [raised |-> FALSE, result |-> None, request |-> "none", status |-> "none"]
    ELSE IF response = "ok"
    THEN [raised |-> FALSE,
          result |-> Some([image_url |-> Url(adapter, language, Upper(identifier))]),
          request |-> "HEAD", status |-> "200"]
    ELSE [raised |-> FALSE, result |-> None, request |-> "HEAD", status |-> "not_200"]

\* The scrape adapters: a GET of a search or card page inside try/except
\* Exception.  The image reference is whatever the markup of the page names
\* (img src), so it is not told apart by the adapter that read it: the
\* provenance is the source field of the card data.
Scrape(adapter, identifier, response) ==
    IF response = "ok"
    THEN [raised |-> FALSE,
          result |-> Some([image_url |-> Url("img_src", "page", identifier)]),
          request |-> "GET"]
    ELSE [raised |-> FALSE, result |-> None, request |-> "GET"]

SearchAdapter(adapter, identifier, language, response) ==
    IF adapter \in DirectProbes
    THEN DirectProbe(adapter, identifier, language, response)
    ELSE Scrape(adapter, identifier, response)

\* The order in which fetch_card_data of op_proxy.py tries its sources.
CliPipeline ==
    << "find_local_image", "search_card_limitless_cdn", "search_card_opcgdb",
       "search_card_limitless", "search_card_onepiecetopdecks", "search_card_official",
       "search_card_direct_cdn", "search_card_tcgplayer" >>

\* The order in which fetch_card_data of op_proxy_gui.py tries its sources.
GuiPipeline ==
    << "find_local_image", "search_card_limitless_cdn", "search_card_opcgdb",
       "search_card_limitless", "search_card_onepiecetopdecks", "search_card_official",
       "search_card_tcgplayer", "search_card_direct_cdn" >>

Pipeline(entry_point) == IF entry_point = "cli" THEN CliPipeline ELSE GuiPipeline

\* ------------------------------------------------------------ image cache

\* One cache file per key: sanitize_filename(card_name) + ".png".
CacheKeys == {sanitize_filename(n) : n \in Identifiers}

EmptyCache == [k \in CacheKeys |-> None]

\* What the GET of an image URL and the write of the cache file end in: the
\* body is an image, the body is something else (status 200 all the same), a
\* requests.exceptions.RequestException (connection error, timeout, HTTP
\* error status), or an OSError from open()/write() of the cache file.
DownloadAnswers == {"image", "not_image", "request_error", "write_error"}

\* What download_image does once the cache check has not returned.
FetchAndStore(c, key, url, answer) ==
    IF answer = "request_error"
    THEN [cache |-> c, ret |-> None, fetched |-> TRUE, raised |-> FALSE]
    ELSE IF answer = "write_error"
    THEN [cache |-> c, ret |-> None, fetched |-> TRUE, raised |-> TRUE]
    ELSE [cache |-> [c EXCEPT ![key] = Some([url |-> url, image |-> (answer = "image")])],
          ret |-> Some(key), fetched |-> TRUE, raised |-> FALSE]

\* download_image without its cache check.
download_image_always_fetches(c, url, card_name, cache_enabled, answer) ==
    FetchAndStore(c, sanitize_filename(card_name), url, answer)

\* download_image whose cache check does not look at use_cache.
download_image_ignores_bypass(c, url, card_name, cache_enabled, answer) ==
    LET key == sanitize_filename(card_name)
    IN  IF c[key] # None
        THEN [cache |-> c, ret |-> Some(key), fetched |-> FALSE, raised |-> FALSE]
        ELSE FetchAndStore(c, key, url, answer)

\* download_image whose cache hit also asks that the file came from the URL
\* now requested.
download_image_keyed_by_url(c, url, card_name, cache_enabled, answer) ==
    LET key == sanitize_filename(card_name)
    IN  IF cache_enabled /\ c[key] # None /\ c[key][1].url = url
        THEN [cache |-> c, ret |-> Some(key), fetched |-> FALSE, raised |-> FALSE]
        ELSE FetchAndStore(c, key, url, answer)

\* download_image: the cache after the call, the returned path (the cache
\* key), whether a GET was issued and whether an exception left the function.
download_image(c, url, card_name, cache_enabled, answer) ==
    LET key == sanitize_filename(card_name)
    IN  IF cache_enabled /\ c[key] # None
        THEN [cache |-> c, ret |-> Some(key), fetched |-> FALSE, raised |-> FALSE]
        ELSE FetchAndStore(c, key, url, answer)

\* get_image_url: the first non-empty image field of the card data.
get_image_url(card) == card.image_url

\* ------------------------------------------------------- image normalizer

CARD_WIDTH_HALF_INCHES == 5

CARD_HEIGHT_HALF_INCHES == 7

DEFAULT_DPI == 300

\* int(CARD_WIDTH_INCHES * dpi) and int(CARD_HEIGHT_INCHES * dpi), 2.5 and 3.5
\* being exact binary fractions.
TargetSize(d) == << (CARD_WIDTH_HALF_INCHES * d) \div 2, (CARD_HEIGHT_HALF_INCHES * d) \div 2 >>

RECURSIVE Pow2(_)
Pow2(e) == IF e = 0 THEN 1 ELSE 2 * Pow2(e - 1)

RECURSIVE Pow2Mod(_, _)
\* 2^k modulo m.
Pow2Mod(k, m) == IF k = 0 THEN 1 % m ELSE (2 * Pow2Mod(k - 1, m)) % m

RECURSIVE LogDown(_, _, _)
LogDown(a, b, e) == IF b * Pow2(e + 1) <= a THEN LogDown(a, b, e + 1) ELSE e

RECURSIVE LogUp(_, _, _)
LogUp(a, b, j) == IF a * Pow2(j) < b THEN LogUp(a, b, j + 1) ELSE j

\* floor(log2(a / b)): the binary exponent of the double nearest to a / b.
FloorLog2(a, b) == IF a >= b THEN LogDown(a, b, 0) ELSE 0 - LogUp(a, b, 1)

IsPow2(n) == n = Pow2(FloorLog2(n, 1))

\* lhs * 2^e <= rhs, for an exponent of either sign.
LeScaled(lhs, e, rhs) == IF e >= 0 THEN lhs * Pow2(e) <= rhs ELSE lhs <= rhs * Pow2(0 - e)

\* The double w / h is (w * 2^k + d) / (h * 2^k) with k = 52 - FloorLog2(w, h):
\* the 53-bit significand is the quotient of w * 2^k by h rounded to nearest.
\* RoundingError is d: 0 when the quotient is exact, negative when the double
\* lies below w / h and positive when it lies above.
RoundingError(w, h) ==
    LET k == 52 - FloorLog2(w, h)
        rem == (w * Pow2Mod(k, h)) % h
    IN  IF rem = 0 THEN 0 ELSE IF 2 * rem > h THEN h - rem ELSE 0 - rem

\* The exponent that compares an error below the integer n with half the
\* spacing of the doubles just below n (half as wide below a power of two).
HalfSpacingExp(w, h, n) ==
    1 + FloorLog2(w, h) - FloorLog2(n, 1) + (IF IsPow2(n) THEN 1 ELSE 0)

\* int(t * (w / h)) in double arithmetic: the quotient w / h is rounded, the
\* product is rounded, int() truncates.  Only when t * w / h is an integer n
\* can the result differ from the exact floor: it is n - 1 when the rounded
\* quotient lies so far below w / h that the product rounds below n.
FloatMulFloor(t, w, h) ==
    LET n == (t * w) \div h
        d == RoundingError(w, h)
    IN  IF (t * w) % h # 0 \/ d >= 0 THEN n
        ELSE IF LeScaled(t * (0 - d), HalfSpacingExp(w, h, n), h) THEN n ELSE n - 1

\* int(t / (w / h)) in double arithmetic: the result is n - 1 instead of
\* n = t * h / w when the rounded quotient lies so far above w / h that the
\* division rounds below the integer n.
FloatDivFloor(t, w, h) ==
    LET n == (t * h) \div w
        d == RoundingError(w, h)
    IN  IF (t * h) % w # 0 \/ d <= 0 THEN n
        ELSE IF LeScaled(n * d, HalfSpacingExp(w, h, n), w) THEN n ELSE n - 1

\* The size img.resize() is asked for: (new_width, new_height).  The
\* comparison of the two rounded ratios agrees with the comparison of the
\* exact ones (rounding is monotonic and two different ratios of integers of
\* this size never round to the same double).
ScaledSize(w, h, d) ==
    LET tw == TargetSize(d)[1]
        th == TargetSize(d)[2]
    IN  IF w * th > tw * h
        THEN << FloatMulFloor(th, w, h), th >>
        ELSE << tw, FloatDivFloor(tw, w, h) >>

\* A crop box whose last two components are the target width and height.
CropBoxWidthHeight(scaled, d) ==
    LET tw == TargetSize(d)[1]
        th == TargetSize(d)[2]
    IN  << (scaled[1] - tw) \div 2, (scaled[2] - th) \div 2, tw, th >>

\* The crop box (left, top, left + target_width, top + target_height); // is
\* floor division.
CropBox(scaled, d) ==
    LET tw == TargetSize(d)[1]
        th == TargetSize(d)[2]
        left == (scaled[1] - tw) \div 2
        top == (scaled[2] - th) \div 2
    IN  << left, top, left + tw, top + th >>

\* resize_card_image on an image of w x h pixels: Image.resize raises
\* ValueError for a size below 1; Image.crop returns an image of the size of
\* its box whether or not the box lies inside the image.
resize_card_image(w, h, d) ==
    LET scaled == ScaledSize(w, h, d)
        box == CropBox(scaled, d)
    IN  IF scaled[1] < 1 \/ scaled[2] < 1
        THEN [raised |-> TRUE, size |-> << 0, 0 >>]
        ELSE [raised |-> FALSE, size |-> << box[3] - box[1], box[4] - box[2] >>]

\* ------------------------------------------------------------------ state

VARIABLES
    app,                \* the entry point: "cli" (op_proxy.py) or "gui" (op_proxy_gui.py)
    card_entries,       \* the request list: a sequence of [identifier, quantity]
    use_cache,          \* not args.no_cache (always TRUE in the GUI)
    CUSTOM_IMAGES_DIR,  \* TRUE when the image directory is set
    lang,               \* "JP" with --jp, else "EN" (the runs of the model use "EN")
    dpi,                \* args.dpi (DEFAULT_DPI in the GUI)
    pc,                 \* position of the batch loop
    idx,                \* index of the decklist entry the loop is at
    pos,                \* index in the pipeline of the adapter tried next
    invoked,            \* history: the adapters tried for the current identifier
    card_data,          \* what fetch_card_data returned
    image_path,         \* where the image of the current card is
    cache,              \* CACHE_DIR: cache key -> file content
    processed_cards,    \* the sequence handed to create_pdf
    results,            \* history: how each entry processed so far ended
    raised_in,          \* the function an uncaught exception came from
    calls,              \* history: the last two calls of download_image
    img,                \* the size of the image resize_card_image was given
    resized,            \* what resize_card_image made of it
    total_cards,        \* create_pdf: len(cards)
    card_index,         \* create_pdf: index of the next card to draw
    row,                \* create_pdf: the row loop
    col,                \* create_pdf: the column loop
    canvas,             \* the PDF: the pages emitted and the page being drawn
    pages,              \* the page count the caller reports
    entry,              \* parse_card_entry: the line it is given
    parsed,             \* parse_card_entry: what it returned
    candidate,          \* is_card_id: the string it is given
    classified,         \* is_card_id: what it returned
    delays,             \* the number of time.sleep(0.2) calls of the batch loop
    decklist_text,      \* GUI: the decklist in the text box, as its entries
    fetch_btn,          \* GUI: the Fetch button is enabled
    export_btn,         \* GUI: the Export button is enabled
    after_queue         \* GUI: the calls posted with root.after, oldest first

vars ==
    << app, card_entries, use_cache, CUSTOM_IMAGES_DIR, lang, dpi, pc, idx, pos, invoked,
       card_data, image_path, cache, processed_cards, results, raised_in, calls, img,
       resized, total_cards, card_index, row, col, canvas, pages, entry, parsed,
       candidate, classified, delays, decklist_text, fetch_btn, export_btn, after_queue >>

config == << app, card_entries, use_cache, CUSTOM_IMAGES_DIR, lang, dpi >>

pdf == << total_cards, card_index, row, col, canvas, pages >>

gui == << decklist_text, fetch_btn, export_btn, after_queue >>

\* The window of the GUI as OnePieceProxyGUI.__init__ leaves it.
NoGui ==
    /\ decklist_text = << >>
    /\ fetch_btn = TRUE
    /\ export_btn = FALSE
    /\ after_queue = << >>

\* The state of the functions that are also run on their own.
others == << img, resized, pdf, entry, parsed, candidate, classified >>

\* canvas.Canvas(output_path, pagesize=LETTER): nothing drawn, no page emitted.
NewCanvas == [emitted |-> << >>, page |-> << >>]

\* create_pdf has not been called.
NoPdf ==
    /\ total_cards = 0
    /\ card_index = 0
    /\ row = 0
    /\ col = 0
    /\ canvas = NewCanvas
    /\ pages = None

\* parse_card_entry has not been called.
NoParse ==
    /\ entry = None
    /\ parsed = None
    /\ candidate = None
    /\ classified = None

Quantities == {1, MaxQty}

CardEntry == [identifier : Identifiers, quantity : Quantities]

Decklists == UNION {[1..n -> CardEntry] : n \in 0..MaxEntries}

\* The sizes of the source images the model opens.
SourceSizes == { << 4, 7 >>, << 7, 4 >> }

\* main() up to the batch loop, and fetch_cards() up to the start of the
\* worker: the request list is parsed, the cache directory exists, the
\* options are set and processed_cards is empty.
Init ==
    /\ app \in {"cli", "gui"}
    /\ card_entries \in Decklists
    /\ use_cache \in (IF app = "cli" THEN BOOLEAN ELSE {TRUE})
    /\ CUSTOM_IMAGES_DIR \in BOOLEAN
    /\ lang = "EN"
    /\ dpi = DEFAULT_DPI
    /\ pc = "start"
    /\ idx = 1
    /\ pos = 1
    /\ invoked = << >>
    /\ card_data = None
    /\ image_path = None
    /\ cache = EmptyCache
    /\ processed_cards = << >>
    /\ results = << >>
    /\ raised_in = None
    /\ calls = << >>
    /\ delays = 0
    /\ NoGui
    /\ img = None
    /\ resized = None
    /\ NoPdf
    /\ NoParse

\* ------------------------------------------------------------- batch loop

Entry == card_entries[idx]

Replicate(x, n) == [k \in 1..n |-> x]

\* The call record kept of download_image: its arguments, whether the cache
\* file existed when it was called, and what it did.
CallRecord(url, card_name, cache_enabled, c, r) ==
    [ url |-> url, name |-> card_name, use_cache |-> cache_enabled,
      existed |-> c[sanitize_filename(card_name)] # None,
      fetched |-> r.fetched, ret |-> r.ret, raised |-> r.raised ]

LastTwo(log, rec) == IF Len(log) = 0 THEN << rec >> ELSE << log[Len(log)], rec >>

\* A pipeline that goes on to the scrape adapters after a hit of the
\* Limitless CDN probe.
fetch_card_data_no_return(position, hit) == IF hit /\ position # 2 THEN 0 ELSE position + 1

\* fetch_card_data after one adapter has answered: 0 when it returns the
\* card, else the pipeline position tried next.
fetch_card_data(position, hit) == IF hit THEN 0 ELSE position + 1

\* `break` in place of `continue`: the loop ends at the failed entry.
ContinueBreaks(i) == [idx |-> i + 1, pc |-> "done"]

\* `continue` in the batch loop: on to the next decklist entry.
Continue(i) == [idx |-> i + 1, pc |-> "loop"]

\* The locals of one iteration (card_data, image_path and the position inside
\* fetch_card_data) are dead once the iteration ends.
EndIteration ==
    /\ pos' = 1
    /\ invoked' = << >>
    /\ card_data' = None
    /\ image_path' = None

\* main() before the loop: a decklist file that cannot be read ends the run
\* (load_decklist calls sys.exit), and so does an empty request list.  In the
\* GUI fetch_cards returns when parse_decklist yields nothing.
Start ==
    /\ pc = "start"
    /\ \E readable \in (IF app = "cli" THEN BOOLEAN ELSE {TRUE}) :
          pc' = IF ~readable THEN "exit_decklist"
                ELSE IF Len(card_entries) = 0 THEN "exit_no_cards"
                ELSE "loop"
    /\ UNCHANGED << config, others, delays, gui, idx, pos, invoked, card_data, image_path, cache,
                    processed_cards, results, raised_in, calls >>

\* A loop head that does not sleep.
time_sleep_skipped(n) == n

\* time.sleep(0.2), counted.
time_sleep(n) == n + 1

\* The head of the for loop: the next entry, the rate-limiting sleep, and the
\* call of fetch_card_data.
LoopNext ==
    /\ pc = "loop"
    /\ idx <= Len(card_entries)
    /\ delays' = time_sleep(delays)
    /\ pc' = "fetch"
    /\ UNCHANGED << config, others, gui, idx, pos, invoked, card_data, image_path, cache, processed_cards,
                    results, raised_in, calls >>

\* fetch_card_data: the local override.
FindLocal ==
    /\ pc = "fetch"
    /\ pos <= Len(Pipeline(app))
    /\ Pipeline(app)[pos] = "find_local_image"
    /\ \E answer \in LocalAnswers :
          LET r == find_local_image(Entry.identifier, CUSTOM_IMAGES_DIR, answer)
              hit == r.result # None
              next == fetch_card_data(pos, hit)
          IN  /\ invoked' = Append(invoked, [adapter |-> "find_local_image", hit |-> hit,
                                             request |-> r.request, status |-> "none"])
              /\ IF r.raised
                 THEN /\ pc' = "crashed"
                      /\ raised_in' = Some("find_local_image")
                      /\ UNCHANGED << pos, card_data, image_path >>
                 ELSE /\ raised_in' = raised_in
                      /\ card_data' = IF hit
                                      THEN Some([name |-> Entry.identifier,
                                                 local_path |-> r.result[1].local_path,
                                                 source |-> "find_local_image"])
                                      ELSE card_data
                      /\ image_path' = IF hit /\ next = 0
                                       THEN Some([local |-> TRUE, file |-> r.result[1].local_path])
                                       ELSE image_path
                      /\ pc' = IF next = 0 THEN "resize" ELSE "fetch"
                      /\ pos' = IF next = 0 THEN pos ELSE next
    /\ UNCHANGED << config, others, delays, gui, idx, cache, processed_cards, results, calls >>

\* fetch_card_data: one network source.
SearchSource ==
    /\ pc = "fetch"
    /\ pos <= Len(Pipeline(app))
    /\ Pipeline(app)[pos] # "find_local_image"
    /\ \E response \in Responses :
          LET adapter == Pipeline(app)[pos]
              r == SearchAdapter(adapter, Entry.identifier, lang, response)
              hit == r.result # None
              next == fetch_card_data(pos, hit)
          IN  /\ invoked' = Append(invoked, [adapter |-> adapter, hit |-> hit,
                                             request |-> r.request,
                                             status |-> IF adapter \in DirectProbes
                                                        THEN r.status
                                                        ELSE "any"])
              /\ card_data' = IF hit
                              THEN Some([name |-> Entry.identifier,
                                         image_url |-> r.result[1].image_url,
                                         source |-> adapter])
                              ELSE card_data
              /\ pc' = IF next = 0 THEN "download" ELSE "fetch"
              /\ pos' = IF next = 0 THEN pos ELSE next
    /\ UNCHANGED << config, others, delays, gui, idx, image_path, cache, processed_cards, results, raised_in,
                    calls >>

\* fetch_card_data returns None after the last source; the loop continues.
CardNotFound ==
    /\ pc = "fetch"
    /\ pos > Len(Pipeline(app))
    /\ results' = Append(results, [status |-> "not_found", copies |-> 0])
    /\ idx' = Continue(idx).idx
    /\ pc' = Continue(idx).pc
    /\ EndIteration
    /\ UNCHANGED << config, others, delays, gui, cache, processed_cards, raised_in, calls >>

\* download_image for the URL of the resolved card: a failed download skips
\* the card, an exception other than RequestException leaves the loop.
DownloadImage ==
    /\ pc = "download"
    /\ \E answer \in DownloadAnswers :
          LET url == get_image_url(card_data[1])
              actual_name == card_data[1].name
              r == download_image(cache, url, actual_name, use_cache, answer)
          IN  /\ cache' = r.cache
              /\ IF r.raised
                 THEN /\ pc' = "crashed"
                      /\ raised_in' = Some("download_image")
                      /\ UNCHANGED << idx, pos, invoked, card_data, image_path, results >>
                 ELSE IF r.ret = None
                 THEN /\ results' = Append(results, [status |-> "download_failed", copies |-> 0])
                      /\ idx' = Continue(idx).idx
                      /\ pc' = Continue(idx).pc
                      /\ EndIteration
                      /\ UNCHANGED raised_in
                 ELSE /\ image_path' = Some([local |-> FALSE, file |-> r.ret[1]])
                      /\ pc' = "resize"
                      /\ UNCHANGED << idx, pos, invoked, card_data, results, raised_in >>
    /\ UNCHANGED << config, others, delays, gui, processed_cards, calls >>

\* Whether Image.open can read the file: a cache file holds what the site
\* sent, a file of the local directory is whatever the user put there.
Readable(path, c) ==
    IF path.local THEN BOOLEAN ELSE {c[path.file][1].image}

\* resize_card_image and the replication by quantity: Image.open raises on a
\* file that is no image, and nothing in the loop catches it.
ResizeImage ==
    /\ pc = "resize"
    /\ \E readable \in Readable(image_path[1], cache), size \in SourceSizes :
          LET r == resize_card_image(size[1], size[2], dpi)
          IN  IF ~readable \/ r.raised
              THEN /\ pc' = "crashed"
                   /\ raised_in' = Some("resize_card_image")
                   /\ UNCHANGED << idx, pos, invoked, card_data, image_path, processed_cards,
                                   results, after_queue >>
              ELSE /\ processed_cards' =
                          processed_cards \o
                              Replicate(<< card_data[1].name, r.size >>, Entry.quantity)
                   /\ results' = Append(results, [status |-> "ok", copies |-> Entry.quantity])
                   /\ idx' = idx + 1
                   /\ pc' = "loop"
                   /\ after_queue' =
                          IF app = "gui"
                          THEN after_queue \o Replicate("_add_preview", Entry.quantity)
                          ELSE after_queue
                   /\ EndIteration
                   /\ UNCHANGED raised_in
    /\ UNCHANGED << config, others, delays, decklist_text, fetch_btn, export_btn, cache, calls >>

\* After the last entry: main() exits when nothing was processed and writes
\* the PDF otherwise; the worker of the GUI posts _fetch_done.
Finish ==
    /\ pc = "loop"
    /\ idx > Len(card_entries)
    /\ pc' = IF app = "cli" /\ processed_cards = << >> THEN "exit_none_processed" ELSE "done"
    /\ after_queue' = IF app = "gui" THEN Append(after_queue, "_fetch_done") ELSE after_queue
    /\ UNCHANGED << config, others, delays, decklist_text, fetch_btn, export_btn, idx, pos, invoked, card_data, image_path, cache,
                    processed_cards, results, raised_in, calls >>

Next ==
    \/ Start
    \/ LoopNext
    \/ FindLocal
    \/ SearchSource
    \/ CardNotFound
    \/ DownloadImage
    \/ ResizeImage
    \/ Finish

Spec == Init /\ [][Next]_vars

\* ------------------------------------------------- resolution pipeline

AdapterNames == {CliPipeline[k] : k \in DOMAIN CliPipeline}

LastInvoked == invoked[Len(invoked)]

\* C1: fetch_card_data tries the adapters of its pipeline one after another
\* and returns at the first that yields a result: the adapters invoked are a
\* prefix of the order, all but the last of them returned nothing, the
\* pipeline is still running only while none has hit, the card returned is
\* the one of the last adapter invoked, and after a hit of the local override
\* no request went to the network.
C1_FirstSuccessStops ==
    /\ \A k \in DOMAIN invoked : invoked[k].adapter = Pipeline(app)[k]
    /\ \A k \in 1..(Len(invoked) - 1) : ~invoked[k].hit
    /\ (pc = "fetch" => /\ \A k \in DOMAIN invoked : ~invoked[k].hit
                        /\ Len(invoked) = pos - 1)
    /\ (card_data # None => /\ Len(invoked) >= 1
                            /\ LastInvoked.hit
                            /\ card_data[1].source = LastInvoked.adapter
                            /\ pc # "fetch")
    /\ (card_data # None /\ card_data[1].source = "find_local_image"
            => \A k \in DOMAIN invoked : invoked[k].request = "none")

\* A card was returned by the fourth adapter or a later one.
C1_Witness ==
    /\ pc = "download"
    /\ Len(invoked) >= 4
    /\ LastInvoked.hit
    /\ card_data # None

\* The order the specification gives for both entry points: local override,
\* Limitless CDN probe, the five scrape adapters, Official CDN probe last.
SpecifiedOrder ==
    << "find_local_image", "search_card_limitless_cdn", "search_card_opcgdb",
       "search_card_limitless", "search_card_onepiecetopdecks", "search_card_official",
       "search_card_tcgplayer", "search_card_direct_cdn" >>

\* C2: in both entry points the adapters are tried in the one fixed order
\* that ends with the Official CDN probe, after every scrape adapter.
C2_SameFixedOrder ==
    \A k \in DOMAIN invoked : invoked[k].adapter = SpecifiedOrder[k]

\* C3: no adapter raises past its own boundary, so no exception ever leaves
\* fetch_card_data.
C3_NoAdapterRaises ==
    raised_in = None \/ raised_in[1] \notin AdapterNames

\* ------------------------------------------------------------ batch loop

FailureStatuses == {"not_found", "download_failed"}

RunEnded == pc \in {"done", "crashed", "exit_decklist", "exit_no_cards", "exit_none_processed"}

LoopCompleted == pc \in {"done", "exit_none_processed"}

\* C4: an entry no adapter resolves, or whose download fails, is skipped:
\* the step that records the failure appends nothing to the output, raises
\* nothing and leaves the loop at the next entry; a failed entry has no
\* copies in the output, and a loop that ran to its end has processed every
\* entry of the decklist.
C4_FailedCardSkipped ==
    /\ [](\A k \in DOMAIN results : results[k].status \in FailureStatuses => results[k].copies = 0)
    /\ [](LoopCompleted => Len(results) = Len(card_entries))
    /\ [][ (/\ Len(results') = Len(results) + 1
            /\ results'[Len(results')].status \in FailureStatuses)
           => (/\ processed_cards' = processed_cards
               /\ raised_in' = None
               /\ pc' = "loop"
               /\ idx' = idx + 1) ]_vars

\* The first entry failed (not found or download failed) and the second was
\* processed into the output after it.
C4_Witness ==
    /\ Len(results) = 2
    /\ results[1].status \in FailureStatuses
    /\ results[2].status = "ok"
    /\ Len(processed_cards) = card_entries[2].quantity

\* C5: once the request list is there, no failure while one card is
\* processed ends the run: a run that ended before every entry was processed
\* ended because the decklist could not be read.
C5_PerCardFailuresNonFatal ==
    (RunEnded /\ Len(results) < Len(card_entries)) => pc = "exit_decklist"

\* ------------------------------------------------------------ image cache

\* The URLs download_image is called with for a card name: the image a page
\* names for it, and its Limitless CDN URL.
UrlsOf(card_name) ==
    {Url("img_src", "page", card_name),
     Url("search_card_limitless_cdn", "EN", Upper(card_name))}

\* The cache on its own: any number of runs of either entry point amount to
\* a sequence of calls of download_image on the one cache directory, with any
\* name, any URL and either value of use_cache.
InitCache ==
    /\ app = "cli"
    /\ card_entries = << >>
    /\ use_cache = TRUE
    /\ CUSTOM_IMAGES_DIR = FALSE
    /\ lang = "EN"
    /\ dpi = DEFAULT_DPI
    /\ pc = "cache"
    /\ idx = 1
    /\ pos = 1
    /\ invoked = << >>
    /\ card_data = None
    /\ image_path = None
    /\ cache = EmptyCache
    /\ processed_cards = << >>
    /\ results = << >>
    /\ raised_in = None
    /\ calls = << >>
    /\ delays = 0
    /\ NoGui
    /\ img = None
    /\ resized = None
    /\ NoPdf
    /\ NoParse

CacheCall ==
    /\ pc = "cache"
    /\ \E card_name \in Identifiers, cache_enabled \in BOOLEAN, answer \in DownloadAnswers :
          \E url \in UrlsOf(card_name) :
              LET r == download_image(cache, url, card_name, cache_enabled, answer)
              IN  /\ cache' = r.cache
                  /\ calls' = LastTwo(calls, CallRecord(url, card_name, cache_enabled, cache, r))
    /\ UNCHANGED << config, others, delays, gui, pc, idx, pos, invoked, card_data, image_path, processed_cards,
                    results, raised_in >>

NextCache == CacheCall

SpecCache == InitCache /\ [][NextCache]_vars

KeyOf(call) == sanitize_filename(call.name)

Succeeded(call) == call.ret # None

\* C6: of two successive calls of download_image with the same URL and name
\* and the cache enabled, the first succeeding, the second issues no request
\* and returns the same cached path; the first issued one request exactly
\* when the cache file did not exist before it, so a round trip that starts
\* without the file costs exactly one network fetch.
C6_CacheRoundTrip ==
    (/\ Len(calls) = 2
     /\ calls[1].url = calls[2].url
     /\ calls[1].name = calls[2].name
     /\ calls[1].use_cache
     /\ calls[2].use_cache
     /\ Succeeded(calls[1]))
    => (/\ ~calls[2].fetched
        /\ ~calls[2].raised
        /\ calls[2].ret = calls[1].ret
        /\ calls[2].ret = Some(KeyOf(calls[2]))
        /\ calls[1].fetched = ~calls[1].existed)

\* The same call twice: the first fetched and wrote the file, the second was
\* served from it.
C6_Witness ==
    /\ Len(calls) = 2
    /\ calls[1].url = calls[2].url
    /\ calls[1].name = calls[2].name
    /\ calls[1].use_cache
    /\ calls[2].use_cache
    /\ calls[1].fetched
    /\ Succeeded(calls[1])
    /\ ~calls[2].fetched
    /\ Succeeded(calls[2])

\* C7: with use_cache = FALSE every call issues a request, whether or not
\* the cache file exists; a successful one leaves the file holding what the
\* requested URL sent, and the next call for that key with the cache enabled
\* is served from the file.
C7_BypassFetchesAndStores ==
    /\ \A k \in DOMAIN calls : ~calls[k].use_cache => calls[k].fetched
    /\ (/\ Len(calls) >= 1
        /\ ~calls[Len(calls)].use_cache
        /\ Succeeded(calls[Len(calls)]))
       => (/\ cache[KeyOf(calls[Len(calls)])] # None
           /\ cache[KeyOf(calls[Len(calls)])][1].url = calls[Len(calls)].url)
    /\ (/\ Len(calls) = 2
        /\ ~calls[1].use_cache
        /\ Succeeded(calls[1])
        /\ calls[2].use_cache
        /\ KeyOf(calls[2]) = KeyOf(calls[1]))
       => (/\ calls[2].existed
           /\ ~calls[2].fetched
           /\ calls[2].ret = calls[1].ret)

\* A bypassing call fetched although the file existed, and the call after
\* it, with the cache enabled, was served from the file it wrote.
C7_Witness ==
    /\ Len(calls) = 2
    /\ ~calls[1].use_cache
    /\ calls[1].existed
    /\ calls[1].fetched
    /\ Succeeded(calls[1])
    /\ calls[2].use_cache
    /\ KeyOf(calls[2]) = KeyOf(calls[1])
    /\ ~calls[2].fetched

\* C8: the cache is keyed by the name alone: a call with the cache enabled
\* for a key whose file exists returns that file without a request whatever
\* URL it is given, and a step changes the content of an existing file only
\* when it is a call with use_cache = FALSE for a name with that key.
C8_KeyedByNameOnly ==
    /\ [](\A k \in DOMAIN calls :
            (calls[k].use_cache /\ calls[k].existed)
                => (~calls[k].fetched /\ calls[k].ret = Some(KeyOf(calls[k]))))
    /\ [][ \A key \in CacheKeys :
              (cache[key] # None /\ cache'[key] # cache[key])
                  => (/\ ~calls'[Len(calls')].use_cache
                      /\ KeyOf(calls'[Len(calls')]) = key
                      /\ calls'[Len(calls')].fetched) ]_vars

\* A call with the cache enabled was given another URL than the one the file
\* came from, and the file still holds the old content.
C8_Witness ==
    /\ Len(calls) = 2
    /\ calls[2].use_cache
    /\ calls[2].existed
    /\ Succeeded(calls[2])
    /\ cache[KeyOf(calls[2])] # None
    /\ cache[KeyOf(calls[2])][1].url # calls[2].url

\* The first of two successive calls wrote the cache file for one name, the
\* second is for another name with the same key and succeeds.
CollidingCalls ==
    /\ Len(calls) = 2
    /\ calls[1].name # calls[2].name
    /\ KeyOf(calls[1]) = KeyOf(calls[2])
    /\ calls[1].fetched
    /\ Succeeded(calls[1])
    /\ Succeeded(calls[2])

\* C9 as stated: two names with the same key share one cache file, and
\* fetching the second name overwrites what was written for the first.
C9_SecondNameOverwrites ==
    CollidingCalls
        => (/\ calls[2].ret = calls[1].ret
            /\ cache[KeyOf(calls[2])][1].url = calls[2].url)

\* C9 as amended: "_A_B" and "/a b" have the same key and share one cache
\* file.  With the cache enabled the call for the second name issues no
\* request and is given the file written for the first, which is left as it
\* is; with use_cache = FALSE its fetch overwrites that file.
C9_CollisionSharesEntry ==
    /\ (/\ Len(calls) = 2
        /\ calls[1].name = NameUnderscore
        /\ calls[2].name = NameSlash
        /\ Succeeded(calls[1])
        /\ Succeeded(calls[2]))
       => calls[2].ret = calls[1].ret
    /\ CollidingCalls
        => (/\ calls[2].ret = calls[1].ret
            /\ (calls[2].use_cache
                    => (/\ ~calls[2].fetched
                        /\ cache[KeyOf(calls[2])][1].url = calls[1].url))
            /\ (~calls[2].use_cache
                    => (/\ calls[2].fetched
                        /\ cache[KeyOf(calls[2])][1].url = calls[2].url)))

\* The second name was served, with the cache enabled, the file written for
\* the first.
C9_Witness ==
    /\ CollidingCalls
    /\ calls[2].use_cache
    /\ ~calls[2].fetched
    /\ cache[KeyOf(calls[2])][1].url = calls[1].url

\* ------------------------------------------------------------- normalizer

Dpis == (1..MaxDpi) \cup {RoundingDpi, DEFAULT_DPI}

\* The images resize_card_image is applied to at a given dpi: every size up
\* to MaxDim x MaxDim, and an image that already has the target size.
ImageSizes(d) == ((1..MaxDim) \X (1..MaxDim)) \cup {TargetSize(d)}

\* The normalizer on its own: one call of resize_card_image.
InitResize ==
    /\ app = "cli"
    /\ card_entries = << >>
    /\ use_cache = TRUE
    /\ CUSTOM_IMAGES_DIR = FALSE
    /\ lang = "EN"
    /\ dpi \in Dpis
    /\ pc = "normalize"
    /\ idx = 1
    /\ pos = 1
    /\ invoked = << >>
    /\ card_data = None
    /\ image_path = None
    /\ cache = EmptyCache
    /\ processed_cards = << >>
    /\ results = << >>
    /\ raised_in = None
    /\ calls = << >>
    /\ delays = 0
    /\ NoGui
    /\ img = None
    /\ resized = None
    /\ NoPdf
    /\ NoParse

Normalize ==
    /\ pc = "normalize"
    /\ \E size \in ImageSizes(dpi) :
          /\ img' = Some(size)
          /\ resized' = Some(resize_card_image(size[1], size[2], dpi))
    /\ pc' = "normalized"
    /\ UNCHANGED << config, idx, pos, invoked, card_data, image_path, cache, processed_cards,
                    results, raised_in, calls, pdf, entry, parsed, candidate, classified,
                    delays, gui >>

NextResize == Normalize

SpecResize == InitResize /\ [][NextResize]_vars

\* C10: for every source image of positive width and height and every dpi
\* of at least 1, resize_card_image returns, without raising, an image of
\* exactly (int(2.5 * dpi), int(3.5 * dpi)) pixels.
C10_ExactTargetSize ==
    resized # None
        => (/\ ~resized[1].raised
            /\ resized[1].size = TargetSize(dpi)
            /\ resized[1].size = << (5 * dpi) \div 2, (7 * dpi) \div 2 >>)

\* An image whose aspect ratio is not the card's, wider than the target in
\* one dimension and smaller in the other, came out at the target size.
C10_Witness ==
    /\ resized # None
    /\ img[1][1] * TargetSize(dpi)[2] # img[1][2] * TargetSize(dpi)[1]
    /\ img[1][1] > TargetSize(dpi)[1]
    /\ img[1][2] < TargetSize(dpi)[2]
    /\ ~resized[1].raised
    /\ resized[1].size = TargetSize(dpi)

\* What resize_card_image computed on the way for the image it was given:
\* the size asked of img.resize() and the crop box.
ScaledOfImg == ScaledSize(img[1][1], img[1][2], dpi)

BoxOfImg == CropBox(ScaledOfImg, dpi)

\* C11: the image is scaled to cover the target: when its aspect ratio
\* exceeds the target's the scaled height is the target height and the scaled
\* width at least the target width, otherwise the scaled width is the target
\* width and the scaled height at least the target height; so the offsets
\* (left, top) of the centred crop are never negative.
C11_ScaleToCover ==
    resized # None
        => (/\ (img[1][1] * TargetSize(dpi)[2] > TargetSize(dpi)[1] * img[1][2]
                    => (/\ ScaledOfImg[2] = TargetSize(dpi)[2]
                        /\ ScaledOfImg[1] >= TargetSize(dpi)[1]))
            /\ (img[1][1] * TargetSize(dpi)[2] <= TargetSize(dpi)[1] * img[1][2]
                    => (/\ ScaledOfImg[1] = TargetSize(dpi)[1]
                        /\ ScaledOfImg[2] >= TargetSize(dpi)[2]))
            /\ BoxOfImg[1] >= 0
            /\ BoxOfImg[2] >= 0)

\* C12: an image that already has the target size is scaled by 1 and
\* cropped at offset (0, 0), so it is returned as it is.
C12_Idempotent ==
    (resized # None /\ img[1] = TargetSize(dpi))
        => (/\ ScaledOfImg = TargetSize(dpi)
            /\ BoxOfImg = << 0, 0, TargetSize(dpi)[1], TargetSize(dpi)[2] >>
            /\ resized[1].size = img[1])

\* --------------------------------------------------------------- PDF grid

CARDS_PER_ROW == 3

CARDS_PER_COL == 3

CARDS_PER_PAGE == CARDS_PER_ROW * CARDS_PER_COL

\* reportlab's LETTER page and the number of points in an inch.
PAGE_WIDTH == 612

PAGE_HEIGHT == 792

POINTS_PER_INCH == 72

card_width_pts == (CARD_WIDTH_HALF_INCHES * POINTS_PER_INCH) \div 2

card_height_pts == (CARD_HEIGHT_HALF_INCHES * POINTS_PER_INCH) \div 2

margin_x == (PAGE_WIDTH - CARDS_PER_ROW * card_width_pts) \div 2

margin_y == (PAGE_HEIGHT - CARDS_PER_COL * card_height_pts) \div 2

\* A position computed from the bottom row upwards.
CardPositionFromBottom(r, c) ==
    [x |-> margin_x + c * card_width_pts, y |-> margin_y + r * card_height_pts]

\* The bottom-left corner (the PDF origin is bottom-left) of grid cell (r, c).
CardPosition(r, c) ==
    [x |-> margin_x + c * card_width_pts,
     y |-> PAGE_HEIGHT - margin_y - (r + 1) * card_height_pts]

\* A page count that adds a page to the quotient.
PageCountPlusOne(n) == n \div CARDS_PER_PAGE + 1

\* The page count the callers report after create_pdf.
PageCount(n) == (n + CARDS_PER_PAGE - 1) \div CARDS_PER_PAGE

\* Canvas.showPage(): the page being drawn is emitted and a new one begun.
showPage(c) == [emitted |-> Append(c.emitted, c.page), page |-> << >>]

\* Canvas.save(): a page with something drawn on it is emitted first.
save(c) == IF c.page # << >> THEN showPage(c) ELSE c

\* create_pdf on its own, for any number of cards the callers hand it: main()
\* exits before the call when processed_cards is empty, and export_pdf
\* returns before it when card_images is empty.
InitPdf ==
    /\ app \in {"cli", "gui"}
    /\ card_entries = << >>
    /\ use_cache = TRUE
    /\ CUSTOM_IMAGES_DIR = FALSE
    /\ lang = "EN"
    /\ dpi = DEFAULT_DPI
    /\ pc = "pdf_page"
    /\ idx = 1
    /\ pos = 1
    /\ invoked = << >>
    /\ card_data = None
    /\ image_path = None
    /\ cache = EmptyCache
    /\ processed_cards = << >>
    /\ results = << >>
    /\ raised_in = None
    /\ calls = << >>
    /\ delays = 0
    /\ NoGui
    /\ img = None
    /\ resized = None
    /\ total_cards \in 1..MaxCards
    /\ card_index = 0
    /\ row = 0
    /\ col = 0
    /\ canvas = NewCanvas
    /\ pages = None
    /\ NoParse

PdfFrame ==
    UNCHANGED << config, idx, pos, invoked, card_data, image_path, cache, processed_cards,
                 results, raised_in, calls, img, resized, total_cards, entry, parsed,
                 candidate, classified, delays, gui >>

\* One pass of the body of the column loop: the card is drawn in cell
\* (row, col) of the page and the loops advance.
DrawImage ==
    /\ pc = "pdf_page"
    /\ row < CARDS_PER_COL
    /\ card_index < total_cards
    /\ canvas' = [canvas EXCEPT !.page =
                      Append(@, [index |-> card_index,
                                 x |-> CardPosition(row, col).x,
                                 y |-> CardPosition(row, col).y])]
    /\ card_index' = card_index + 1
    /\ IF col + 1 < CARDS_PER_ROW
       THEN col' = col + 1 /\ row' = row
       ELSE col' = 0 /\ row' = row + 1
    /\ UNCHANGED << pc, pages >>
    /\ PdfFrame

\* The break out of the column loop when the cards are exhausted; the row
\* loop goes on to its next row.
BreakRow ==
    /\ pc = "pdf_page"
    /\ row < CARDS_PER_COL
    /\ card_index >= total_cards
    /\ row' = row + 1
    /\ col' = 0
    /\ UNCHANGED << pc, card_index, canvas, pages >>
    /\ PdfFrame

\* After the row loop: a new page when cards remain, and the test of the
\* while loop.
EndPage ==
    /\ pc = "pdf_page"
    /\ row = CARDS_PER_COL
    /\ IF card_index < total_cards
       THEN /\ canvas' = showPage(canvas)
            /\ pc' = "pdf_page"
       ELSE /\ canvas' = canvas
            /\ pc' = "pdf_save"
    /\ row' = 0
    /\ col' = 0
    /\ UNCHANGED << card_index, pages >>
    /\ PdfFrame

\* c.save(), and the page count the caller computes after create_pdf returns.
SavePdf ==
    /\ pc = "pdf_save"
    /\ canvas' = save(canvas)
    /\ pages' = Some(PageCount(total_cards))
    /\ pc' = "pdf_saved"
    /\ UNCHANGED << card_index, row, col >>
    /\ PdfFrame

NextPdf == DrawImage \/ BreakRow \/ EndPage \/ SavePdf

SpecPdf == InitPdf /\ [][NextPdf]_vars

\* ceil(n / CARDS_PER_PAGE), as the least p with p * CARDS_PER_PAGE >= n.
CeilPages(n) == CHOOSE p \in 0..n : p * CARDS_PER_PAGE >= n /\ (p = 0 \/ (p - 1) * CARDS_PER_PAGE < n)

\* C13: for N >= 1 cards create_pdf emits exactly ceil(N / 9) pages, each
\* but the last with 9 images and the last with N - 9 * (pages - 1), between
\* 1 and 9; there is no empty page, and the page count the caller reports is
\* the number of pages emitted.
C13_PageCount ==
    /\ \A k \in DOMAIN canvas.emitted : Len(canvas.emitted[k]) \in 1..CARDS_PER_PAGE
    /\ \A k \in 1..(Len(canvas.emitted) - 1) : Len(canvas.emitted[k]) = 9
    /\ pc = "pdf_saved"
        => (/\ Len(canvas.emitted) = CeilPages(total_cards)
            /\ Len(canvas.emitted[Len(canvas.emitted)])
                   = total_cards - 9 * (Len(canvas.emitted) - 1)
            /\ canvas.page = << >>
            /\ pages = Some(Len(canvas.emitted)))

\* Eighteen cards were saved as two full pages.
C13_Witness ==
    /\ pc = "pdf_saved"
    /\ total_cards = 2 * CARDS_PER_PAGE
    /\ Len(canvas.emitted) = 2
    /\ Len(canvas.emitted[2]) = CARDS_PER_PAGE
    /\ pages = Some(2)

\* The pages of the canvas in order, the page being drawn last.
AllPages == IF canvas.page = << >> THEN canvas.emitted ELSE Append(canvas.emitted, canvas.page)

\* C14: the image at input index i is drawn on page i div 9, in the row
\* (i mod 9) div 3 from the top and the column i mod 3 from the left; the
\* images are drawn in input order, each once (all of them once the PDF is
\* saved), and no two images of a page are in the same cell.
C14_RowMajorFill ==
    /\ \A p \in DOMAIN AllPages : \A k \in DOMAIN AllPages[p] :
          LET d == AllPages[p][k]
          IN  /\ d.index = (p - 1) * 9 + (k - 1)
              /\ p - 1 = d.index \div 9
              /\ d.x = margin_x + (d.index % 3) * card_width_pts
              /\ PAGE_HEIGHT - (d.y + card_height_pts)
                     = margin_y + ((d.index % 9) \div 3) * card_height_pts
    /\ \A p \in DOMAIN AllPages : \A k, m \in DOMAIN AllPages[p] :
          (AllPages[p][k].x = AllPages[p][m].x /\ AllPages[p][k].y = AllPages[p][m].y) => k = m
    /\ pc = "pdf_saved" => card_index = total_cards
    /\ LET drawn == IF AllPages = << >> THEN 0
                    ELSE (Len(AllPages) - 1) * 9 + Len(AllPages[Len(AllPages)])
       IN  drawn = card_index

\* The eleventh image (index 10) is on the second page, first row from the
\* top, second column.
C14_Witness ==
    /\ pc = "pdf_saved"
    /\ Len(canvas.emitted) = 2
    /\ Len(canvas.emitted[2]) >= 2
    /\ canvas.emitted[2][2].index = 10
    /\ canvas.emitted[2][2].x = margin_x + card_width_pts
    /\ canvas.emitted[2][2].y = PAGE_HEIGHT - margin_y - card_height_pts

\* ------------------------------------------------------------- line parser

LineChars == {"0", "4", "x", "X", " ", "#", "A"}

\* The lines of the specification's examples: "4x OP01-001", "4 OP01-001",
\* "OP01-001", "# comment" and a line of two tabs.
ExampleLines ==
    { << "4", "x", " " >> \o CardCode, << "4", " " >> \o CardCode, CardCode,
      << "#", " ", "c", "o", "m", "m", "e", "n", "t" >>, << "\t", "\t" >> }

Lines == UNION {[1..n -> LineChars] : n \in 0..MaxLineLen} \cup ExampleLines

\* parse_card_entry on its own: one line, given to the parser of either
\* entry point (load_decklist and main in the CLI, parse_decklist in the GUI).
InitParse ==
    /\ app \in {"cli", "gui"}
    /\ card_entries = << >>
    /\ use_cache = TRUE
    /\ CUSTOM_IMAGES_DIR = FALSE
    /\ lang = "EN"
    /\ dpi = DEFAULT_DPI
    /\ pc = "parse"
    /\ idx = 1
    /\ pos = 1
    /\ invoked = << >>
    /\ card_data = None
    /\ image_path = None
    /\ cache = EmptyCache
    /\ processed_cards = << >>
    /\ results = << >>
    /\ raised_in = None
    /\ calls = << >>
    /\ delays = 0
    /\ NoGui
    /\ img = None
    /\ resized = None
    /\ NoPdf
    /\ entry \in {Some(l) : l \in Lines}
    /\ parsed = None
    /\ candidate = None
    /\ classified = None

\* The line is parsed, and appended to the request list when an identifier
\* came back.
ParseEntry ==
    /\ pc = "parse"
    /\ parsed' = parse_card_entry(app, entry[1])
    /\ card_entries' = IF parsed' # None THEN Append(card_entries, parsed'[1]) ELSE card_entries
    /\ pc' = "parsed"
    /\ UNCHANGED << app, use_cache, CUSTOM_IMAGES_DIR, lang, dpi, idx, pos, invoked, card_data,
                    image_path, cache, processed_cards, results, raised_in, calls, img, resized,
                    pdf, entry, candidate, classified, delays, gui >>

NextParse == ParseEntry

SpecParse == InitParse /\ [][NextParse]_vars

\* The length of the run of digits a line starts with.
RECURSIVE DigitRun(_)
DigitRun(s) == IF s # << >> /\ Head(s) \in Digits THEN 1 + DigitRun(Tail(s)) ELSE 0

\* The parse the specification describes: nothing for a blank line or a
\* comment; for a line that starts with digits, an optional x and then
\* whitespace, the rest and that quantity; the whole trimmed line and 1
\* otherwise.
SpecifiedParse(line) ==
    LET e == strip(line)
        d == DigitRun(e)
        x == IF d < Len(e) /\ e[d + 1] \in {"x", "X"} THEN 1 ELSE 0
        rest == SubSeq(e, d + x + 1, Len(e))
    IN  IF e = << >> \/ e[1] = "#"
        THEN None
        ELSE IF d >= 1 /\ rest # << >> /\ Head(rest) \in Whitespace
        THEN Some([identifier |-> strip(rest), quantity |-> int(SubSeq(e, 1, d))])
        ELSE Some([identifier |-> e, quantity |-> 1])

\* C15: parse_card_entry of both entry points returns nothing for a blank
\* line or a comment, (remainder, quantity) for a line with a leading quantity
\* token <digits>[x] followed by whitespace, and (whole trimmed line, 1) for
\* any other line, in particular for one whose digits and optional x are
\* not followed by whitespace.
C15_ParseRules ==
    pc = "parsed" => parsed = SpecifiedParse(entry[1])

\* C16: whenever parse_card_entry returns an identifier the quantity is at
\* least 1, so every entry of the request list has a quantity of at least 1.
C16_PositiveQuantity ==
    /\ (pc = "parsed" /\ parsed # None) => parsed[1].quantity >= 1
    /\ pc = "parsed" => \A k \in DOMAIN card_entries : card_entries[k].quantity >= 1

\* -------------------------------------------------------------- classifier

\* The strings is_card_id is given: at each place of the grammar the piece
\* the grammar asks for or one it does not allow, with and without
\* characters before and after.
CandidatePieces ==
    << {<< >>, <<"X">>},                          \* before the code
       {<<"O">>, <<"o">>, <<"0">>},               \* first letter
       {<<"P">>},                                 \* second letter
       {<< >>, <<"x">>, <<"1">>},                 \* third letter
       {<<"0">>, <<"A">>},                        \* first digit of the set
       {<<"1">>, << >>},                          \* second digit of the set
       {<<"-">>, << >>},                          \* hyphen
       {<<"0", "0">>, <<"0">>},                   \* first two digits of the number
       {<<"1">>},                                 \* third digit of the number
       {<< >>, <<"A">>, <<"1">>},                 \* trailing letter
       {<< >>, <<"\n">>, <<" ">>, <<"\n", "\n">>} \* after the code
    >>

RECURSIVE Concatenations(_)
Concatenations(pieces) ==
    IF pieces = << >>
    THEN {<< >>}
    ELSE {p \o rest : p \in Head(pieces), rest \in Concatenations(Tail(pieces))}

Candidates == Concatenations(CandidatePieces)

\* is_card_id on its own.
InitClassify ==
    /\ app = "cli"
    /\ card_entries = << >>
    /\ use_cache = TRUE
    /\ CUSTOM_IMAGES_DIR = FALSE
    /\ lang = "EN"
    /\ dpi = DEFAULT_DPI
    /\ pc = "classify"
    /\ idx = 1
    /\ pos = 1
    /\ invoked = << >>
    /\ card_data = None
    /\ image_path = None
    /\ cache = EmptyCache
    /\ processed_cards = << >>
    /\ results = << >>
    /\ raised_in = None
    /\ calls = << >>
    /\ delays = 0
    /\ NoGui
    /\ img = None
    /\ resized = None
    /\ NoPdf
    /\ entry = None
    /\ parsed = None
    /\ candidate \in {Some(c) : c \in Candidates}
    /\ classified = None

Classify ==
    /\ pc = "classify"
    /\ classified' = Some(is_card_id(candidate[1]))
    /\ pc' = "classified"
    /\ UNCHANGED << config, idx, pos, invoked, card_data, image_path, cache, processed_cards,
                    results, raised_in, calls, img, resized, pdf, entry, parsed, candidate,
                    delays, gui >>

NextClassify == Classify

SpecClassify == InitClassify /\ [][NextClassify]_vars

\* The structured grammar: after upper-casing, 2-3 letters, 2 digits, a
\* hyphen, 3 digits and an optional letter, and nothing else.
StructuredCode(str) == CardPattern(Upper(str))

\* C17: is_card_id returns true for exactly the strings of the structured
\* grammar, and false for every other string, those with characters before
\* or after a code included.
C17_ClassificationExact ==
    pc = "classified" => (classified[1] <=> StructuredCode(candidate[1]))

\* ---------------------------------------------------------- direct probes

\* C18: a direct-probe adapter given an identifier that is no structured
\* code returns no result without a request; given a structured code it
\* issues a HEAD request only, and returns a result, the URL it probed,
\* exactly when the reply has status 200.
C18_ProbesOnlyStructuredCodes ==
    /\ \A k \in DOMAIN invoked :
          invoked[k].adapter \in DirectProbes
              => IF is_card_id(Entry.identifier)
                 THEN /\ invoked[k].request = "HEAD"
                      /\ invoked[k].hit <=> invoked[k].status = "200"
                 ELSE /\ invoked[k].request = "none"
                      /\ ~invoked[k].hit
    /\ (card_data # None /\ card_data[1].source \in DirectProbes)
          => /\ is_card_id(Entry.identifier)
             /\ card_data[1].image_url
                    = Url(card_data[1].source, lang, Upper(Entry.identifier))

\* Every source has been tried for a free-text identifier, and neither of
\* the two direct probes made a request.
C18_Witness ==
    /\ pc = "fetch"
    /\ Len(invoked) = Len(Pipeline(app))
    /\ ~is_card_id(Entry.identifier)
    /\ \A k \in DOMAIN invoked :
          invoked[k].adapter \in DirectProbes => invoked[k].request = "none"
    /\ \E k \in DOMAIN invoked : invoked[k].adapter = "search_card_direct_cdn"

\* ---------------------------------------------------------- rate limiting

Resolving == pc \in {"fetch", "download", "resize"}

\* C19: the entries are resolved one after another, each finished (found or
\* not, downloaded, normalized) before the next begins, with one delay
\* before each resolution, hence between any two successive ones, and no
\* delay between the adapter attempts for one identifier.
C19_DelayBetweenResolutions ==
    /\ [](Resolving => (delays = idx /\ Len(results) = idx - 1))
    /\ [](pc = "loop" => (delays = idx - 1 /\ Len(results) = idx - 1 /\ invoked = << >>))
    /\ [][ (delays' # delays)
              => (/\ delays' = delays + 1
                  /\ pc = "loop"
                  /\ pc' = "fetch"
                  /\ invoked = << >>
                  /\ invoked' = << >>) ]_vars
    /\ [][ (invoked' # invoked) => delays' = delays ]_vars
    /\ [][ (idx' # idx)
              => (/\ idx' = idx + 1
                  /\ Resolving
                  /\ pc' = "loop"
                  /\ Len(results') = idx) ]_vars

\* The second entry is being resolved, after two delays, and its second
\* adapter attempt has been made.
C19_Witness ==
    /\ pc = "fetch"
    /\ idx = 2
    /\ delays = 2
    /\ Len(invoked) = 2
    /\ Len(results) = 1

\* -------------------------------------------------------------------- GUI

\* The decklists typed into the text box of the GUI.
GuiDecklists ==
    { << >>,
      << [identifier |-> CardCode, quantity |-> 1] >>,
      << [identifier |-> NameUnderscore, quantity |-> 1],
         [identifier |-> CardCode, quantity |-> MaxQty] >> }

\* The window after OnePieceProxyGUI.__init__: no worker, Fetch enabled,
\* Export disabled, card_images (processed_cards) empty, and whatever the
\* user chose as custom image folder.
InitGui ==
    /\ app = "gui"
    /\ card_entries = << >>
    /\ use_cache = TRUE
    /\ CUSTOM_IMAGES_DIR \in BOOLEAN
    /\ lang = "EN"
    /\ dpi = DEFAULT_DPI
    /\ pc = "idle"
    /\ idx = 1
    /\ pos = 1
    /\ invoked = << >>
    /\ card_data = None
    /\ image_path = None
    /\ cache = EmptyCache
    /\ processed_cards = << >>
    /\ results = << >>
    /\ raised_in = None
    /\ calls = << >>
    /\ delays = 0
    /\ NoGui
    /\ img = None
    /\ resized = None
    /\ NoPdf
    /\ NoParse

\* The worker thread is inside the loop of _fetch_thread.
WorkerRunning == pc \in {"loop", "fetch", "download", "resize"}

\* The state of the worker thread and of the functions it calls.
worker == << idx, pos, invoked, card_data, image_path, results, raised_in, delays >>

\* The user edits the text box (typing, or load_file).
EditDecklist ==
    /\ \E text \in GuiDecklists : decklist_text' = text
    /\ UNCHANGED << config, worker, pc, cache, processed_cards, calls, others, fetch_btn,
                    export_btn, after_queue >>

\* clear_decklist, the command of the Clear button, which is never disabled:
\* the text box is emptied and clear_preview empties card_images and
\* disables Export.
ClearDecklist ==
    /\ decklist_text' = << >>
    /\ processed_cards' = << >>
    /\ export_btn' = FALSE
    /\ UNCHANGED << config, worker, pc, cache, calls, others, fetch_btn, after_queue >>

\* A fetch_cards that leaves the Fetch button enabled.
FetchCardsKeepsButton ==
    /\ fetch_btn
    /\ decklist_text # << >>
    /\ card_entries' = decklist_text
    /\ processed_cards' = << >>
    /\ export_btn' = FALSE
    /\ fetch_btn' = fetch_btn
    /\ pc' = "loop"
    /\ idx' = 1
    /\ results' = << >>
    /\ delays' = 0
    /\ raised_in' = None
    /\ EndIteration
    /\ UNCHANGED << app, use_cache, CUSTOM_IMAGES_DIR, lang, dpi, cache, calls, others,
                    decklist_text, after_queue >>

\* fetch_cards, the command of the Fetch button: with a decklist in the box,
\* clear_preview, the button is disabled and the worker thread is started on
\* the parsed entries.
FetchCards ==
    /\ fetch_btn
    /\ decklist_text # << >>
    /\ card_entries' = decklist_text
    /\ processed_cards' = << >>
    /\ export_btn' = FALSE
    /\ fetch_btn' = FALSE
    /\ pc' = "loop"
    /\ idx' = 1
    /\ results' = << >>
    /\ delays' = 0
    /\ raised_in' = None
    /\ EndIteration
    /\ UNCHANGED << app, use_cache, CUSTOM_IMAGES_DIR, lang, dpi, cache, calls, others,
                    decklist_text, after_queue >>

\* The foreground runs an _add_preview call the worker posted.
AddPreview ==
    /\ after_queue # << >>
    /\ Head(after_queue) = "_add_preview"
    /\ after_queue' = Tail(after_queue)
    /\ UNCHANGED << config, worker, pc, cache, processed_cards, calls, others, decklist_text,
                    fetch_btn, export_btn >>

\* The foreground runs _fetch_done: Fetch is enabled again, and Export when
\* card_images is not empty.
FetchDone ==
    /\ after_queue # << >>
    /\ Head(after_queue) = "_fetch_done"
    /\ after_queue' = Tail(after_queue)
    /\ fetch_btn' = TRUE
    /\ export_btn' = IF processed_cards # << >> THEN TRUE ELSE export_btn
    /\ UNCHANGED << config, worker, pc, cache, processed_cards, calls, others, decklist_text >>

\* export_pdf, the command of the Export button: create_pdf reads
\* card_images and the page count is reported.
ExportPdf ==
    /\ export_btn
    /\ processed_cards # << >>
    /\ total_cards' = Len(processed_cards)
    /\ pages' = Some(PageCount(Len(processed_cards)))
    /\ UNCHANGED << config, worker, pc, cache, processed_cards, calls, gui, img, resized,
                    card_index, row, col, canvas, entry, parsed, candidate, classified >>

NextGui ==
    \/ EditDecklist
    \/ ClearDecklist
    \/ FetchCards
    \/ LoopNext
    \/ FindLocal
    \/ SearchSource
    \/ CardNotFound
    \/ DownloadImage
    \/ ResizeImage
    \/ Finish
    \/ AddPreview
    \/ FetchDone
    \/ ExportPdf

SpecGui == InitGui /\ [][NextGui]_vars

IsPrefix(s, t) == Len(s) <= Len(t) /\ SubSeq(t, 1, Len(s)) = s

\* C20: the worker and the foreground share no mutable state: while the
\* worker runs, card_images changes only by what the worker appends to it,
\* and no foreground handler that reads it (Export) is enabled.
C20_NoSharedMutableState ==
    /\ [](WorkerRunning => ~export_btn)
    /\ [][ WorkerRunning => IsPrefix(processed_cards, processed_cards') ]_vars

\* ------------------------------------------------- quantity replication

\* The cards the entries 1..n of the batch should contribute: `quantity`
\* copies of the normalized image for an entry recorded as processed,
\* nothing for an entry recorded as failed.
RECURSIVE SpecifiedCards(_)
SpecifiedCards(n) ==
    IF n = 0 THEN << >>
    ELSE SpecifiedCards(n - 1) \o
         (IF results[n].status = "ok"
          THEN Replicate(<< card_entries[n].identifier, TargetSize(dpi) >>,
                         card_entries[n].quantity)
          ELSE << >>)

RECURSIVE SumOfQuantities(_, _)
SumOfQuantities(n, successful_only) ==
    IF n = 0 THEN 0
    ELSE SumOfQuantities(n - 1, successful_only) +
         (IF successful_only /\ results[n].status # "ok" THEN 0 ELSE card_entries[n].quantity)

\* The list can be handed to create_pdf: main() has left the loop with
\* cards, or the Export button of the window is enabled.
HandedToCompositor ==
    \/ app = "cli" /\ pc = "done"
    \/ app = "gui" /\ export_btn

\* C21: the sequence handed to the page compositor holds, in decklist order,
\* exactly `quantity` consecutive copies of the normalized image of every
\* entry that was processed and nothing for the entries that failed; its
\* length is the sum of the quantities of the processed entries and at most
\* the requested total.
C21_QuantityReplication ==
    HandedToCompositor =>
        /\ Len(results) = Len(card_entries)
        /\ processed_cards = SpecifiedCards(Len(card_entries))
        /\ Len(processed_cards) = SumOfQuantities(Len(card_entries), TRUE)
        /\ Len(processed_cards) <= SumOfQuantities(Len(card_entries), FALSE)

\* ------------------------------------------------------------ GUI liveness

\* One step of the worker thread.
FetchThread ==
    \/ LoopNext
    \/ FindLocal
    \/ SearchSource
    \/ CardNotFound
    \/ DownloadImage
    \/ ResizeImage
    \/ Finish

\* The window with its scheduling: a worker thread that can run does run,
\* and the Tk main loop runs the calls posted with root.after.
SpecGuiLive ==
    /\ SpecGui
    /\ WF_vars(FetchThread)
    /\ WF_vars(AddPreview)
    /\ WF_vars(FetchDone)

\* C22: whenever fetch_cards has started a worker (Fetch disabled), the
\* worker eventually leaves its loop over the entries and _fetch_done
\* eventually runs, enabling Fetch again, whatever the outcomes of resolution,
\* download and normalization.
C22_FetchEventuallyDone ==
    /\ WorkerRunning ~> (pc = "done")
    /\ (~fetch_btn) ~> fetch_btn

\* ------------------------------------------------------- single GUI worker

\* A step that starts a worker thread: fetch_cards takes the entries of the
\* text box and disables the button.
WorkerStarts ==
    \/ fetch_btn /\ ~fetch_btn'
    \/ /\ << pc', idx', delays' >> = << "loop", 1, 0 >>
       /\ << pc, idx, delays >> # << "loop", 1, 0 >>

\* A step in which create_pdf reads card_images.
CreatePdfReads == total_cards' # total_cards \/ pages' # pages

\* C23: at most one worker runs at a time, since Fetch stays disabled from
\* the start of fetch_cards until _fetch_done; and Export is never enabled
\* while a worker runs, so create_pdf never reads card_images while the
\* worker is appending to it.
C23_SingleWorker ==
    /\ [](WorkerRunning => (~fetch_btn /\ ~export_btn))
    /\ [][ WorkerRunning
              => (~WorkerStarts /\ ~CreatePdfReads /\ card_entries' = card_entries) ]_vars
    /\ [][ (~fetch_btn /\ fetch_btn')
              => (pc = "done" /\ after_queue # << >> /\ Head(after_queue) = "_fetch_done") ]_vars

\* A second fetch is under way with cards already appended, after a first
\* one whose cards could be exported.
C23_Witness ==
    /\ WorkerRunning
    /\ idx = 2
    /\ processed_cards # << >>
    /\ pages # None
    /\ ~fetch_btn
    /\ ~export_btn

\* ------------------------------------------------- the two line parsers

\* C24: the two entry points parse decklists identically: whatever one
\* parse_card_entry returns for a line, the (identifier, quantity) pair or
\* nothing, the parse_card_entry of the other entry point returns too.
C24_ParsersAgree ==
    pc = "parsed" =>
        /\ parsed = parse_card_entry("cli", entry[1])
        /\ parsed = parse_card_entry("gui", entry[1])

====
